---- MODULE Spec2Model ----
(***************************************************************************)
(* Model of universal.py: a command-line run that loads a CSV table and    *)
(* summarizes every column (numeric or categorical), saving one bar chart  *)
(* per column into the "plots" directory.                                  *)
(*                                                                         *)
(* A cell is a record [na, v]: na marks a missing cell (NaN), v is the     *)
(* number (numeric columns) or the text (object columns).  A column is a   *)
(* record [dtype, name, values]; a name is a sequence of characters.       *)
(* The console output is the sequence `report`; each element records what  *)
(* one group of print calls showed.  Mean, median, mode and percentiles    *)
(* are printed by the program but take no part in its control flow and are *)
(* left out of the section records.                                        *)
(***************************************************************************)
EXTENDS Integers, Sequences, FiniteSets, TLC

VARIABLES path_exists, parseable, table, df, pc, col, report, plot_dir_made,
          files, plot_calls, exit_status

vars == <<path_exists, parseable, table, df, pc, col, report, plot_dir_made,
          files, plot_calls, exit_status>>

(***************************************************************************)
(* Bounds of the input family.                                             *)
(***************************************************************************)
MaxCols == 2
SmallRows == 2
MaxRun == 2
Near == 2
MaxTail == 2

(***************************************************************************)
(* Program constants.                                                      *)
(***************************************************************************)
MaxCategories == 50
HeadRows == 10
MaxBins == 20
CutAdjust == 1000

(***************************************************************************)
(* Generic helpers.                                                        *)
(***************************************************************************)
RECURSIVE SumSeq(_)
SumSeq(s) == IF s = <<>> THEN 0 ELSE Head(s) + SumSeq(Tail(s))

Range(s) == {s[i] : i \in DOMAIN s}

Abs(n) == IF n < 0 THEN -n ELSE n

MinOf(S) == CHOOSE m \in S : \A o \in S : m <= o

MaxOf(S) == CHOOSE m \in S : \A o \in S : m >= o

\* the sequence s with every element evaluated once
Tuple(s) == s \o <<>>

SeqsUpTo(S, n) == UNION {[1..k -> S] : k \in 0..n}

(***************************************************************************)
(* pandas / str operations used by the program.                            *)
(***************************************************************************)
NaN == [na |-> TRUE, v |-> 0]

NaT == [na |-> TRUE, v |-> ""]

Num(n) == [na |-> FALSE, v |-> n]

Txt(s) == [na |-> FALSE, v |-> s]

is_numeric_dtype(c) == c.dtype = "num"

\* series.dropna(): the present cells, in order
dropna(series) == SelectSeq(series, LAMBDA c : ~c.na)

\* series.isna().sum()
isna_sum(series) == Cardinality({i \in DOMAIN series : series[i].na})

\* mutant: the coercion loses the missing cells instead of labelling them
astype_str_dropping(series) ==
    LET present == SelectSeq(series, LAMBDA c : ~c.na)
    IN  Tuple([i \in DOMAIN present |-> present[i].v])

\* df[col].astype(str): every cell becomes text, a missing cell the text "nan"
astype_str(series) ==
    Tuple([i \in DOMAIN series |-> IF series[i].na THEN "nan" ELSE series[i].v])

\* the distinct values of a sequence in first-seen order
FirstSeen(s) ==
    LET first == {i \in DOMAIN s : \A j \in 1..(i - 1) : s[j] # s[i]}
        nth   == Tuple([p \in 1..Cardinality(first) |->
                    CHOOSE i \in first : Cardinality({j \in first : j <= i}) = p])
    IN  Tuple([p \in 1..Cardinality(first) |-> s[nth[p]]])

CountOf(s, k) == Cardinality({i \in DOMAIN s : s[i] = k})

\* series.value_counts(): [key, count] rows, count descending, ties in
\* first-seen order
value_counts(series) ==
    LET keys == FirstSeen(series)
        n    == Len(keys)
        cnt  == Tuple([j \in 1..n |-> CountOf(series, keys[j])])
        pos  == Tuple([j \in 1..n |->
                   1 + Cardinality({k \in 1..n :
                          cnt[k] > cnt[j] \/ (cnt[k] = cnt[j] /\ k < j)})])
        at   == Tuple([p \in 1..n |-> CHOOSE j \in 1..n : pos[j] = p])
    IN  Tuple([p \in 1..n |-> [key |-> keys[at[p]], count |-> cnt[at[p]]]])

\* counts.to_frame("Count").head(n)
head(counts, n) == SubSeq(counts, 1, IF Len(counts) < n THEN Len(counts) ELSE n)

\* counts.idxmax(): the first row holding the greatest count
idxmax(counts) ==
    LET m == MaxOf({counts[i].count : i \in DOMAIN counts})
    IN  counts[MinOf({i \in DOMAIN counts : counts[i].count = m})]

\* counts.idxmin(): the first row holding the smallest count
idxmin(counts) ==
    LET m == MinOf({counts[i].count : i \in DOMAIN counts})
    IN  counts[MinOf({i \in DOMAIN counts : counts[i].count = m})]

\* len(non_null.unique())
nunique(non_null) == Cardinality({non_null[i].v : i \in DOMAIN non_null})

\* min(len(non_null.unique()), 20)
bin_count_of(non_null) ==
    IF nunique(non_null) < MaxBins THEN nunique(non_null) ELSE MaxBins

\* The scale that makes the bin edges of pd.cut integers: a value x is
\* compared with the edges as CutAdjust * bins * x.
CutScale(bins) == CutAdjust * bins

\* pd.cut(non_null, bins=bins): bins + 1 equally spaced edges over [mn, mx];
\* a zero-width range is widened by 0.1% of |mn| (0.001 at 0) on both sides,
\* otherwise the lowest edge is lowered by 0.1% of the range.
CutEdges(non_null, bins) ==
    LET vals == {non_null[i].v : i \in DOMAIN non_null}
        mn   == MinOf(vals)
        mx   == MaxOf(vals)
        S    == CutScale(bins)
    IN  IF mn = mx
        THEN LET lo == S * mn - bins * (IF mn # 0 THEN Abs(mn) ELSE 1)
                 hi == S * mx + bins * (IF mx # 0 THEN Abs(mx) ELSE 1)
             IN  Tuple([j \in 1..(bins + 1) |->
                    (lo * (bins + 1 - j) + hi * (j - 1)) \div bins])
        ELSE Tuple([j \in 1..(bins + 1) |->
                S * mn + CutAdjust * (j - 1) * (mx - mn)
                  - (IF j = 1 THEN bins * (mx - mn) ELSE 0)])

\* mutant: the edges are searched from the right, so a value on an edge
\* goes to the bin above it
CutBin_right(edges, bins, x) ==
    LET X  == CutScale(bins) * x
        id == Cardinality({j \in DOMAIN edges : edges[j] <= X})
    IN  IF id > bins THEN 0 ELSE id

\* the bin of x: edges.searchsorted(x, side="left"), and a value equal to
\* the lowest edge is put into bin 1 (include_lowest)
CutBin(edges, bins, x) ==
    LET X  == CutScale(bins) * x
        id == Cardinality({j \in DOMAIN edges : edges[j] < X})
    IN  IF X = edges[1] THEN 1 ELSE IF id > bins THEN 0 ELSE id

\* pd.cut(...).value_counts().sort_index(): one count per bin in ascending
\* bin order; a value outside every bin is counted nowhere
cut_value_counts(non_null, bins) ==
    LET edges == CutEdges(non_null, bins)
    IN  Tuple([b \in 1..bins |->
            Cardinality({i \in DOMAIN non_null :
                            CutBin(edges, bins, non_null[i].v) = b})])

Lower(ch) == IF ch = "A" THEN "a" ELSE ch

\* f"{name.replace(' ', '_').lower()}_distribution.png"
plot_filename(name) ==
    [i \in DOMAIN name |-> Lower(IF name[i] = " " THEN "_" ELSE name[i])]
        \o <<"_distribution.png">>

\* mutant: 50 distinct categories already truncate the listing
is_truncated_from(counts) == Len(counts) >= MaxCategories

\* len(counts) > 50
is_truncated(counts) == Len(counts) > MaxCategories

(***************************************************************************)
(* The input family: the tables read_csv can return.  Column names are     *)
(* distinct (read_csv renames duplicates), all columns of a table have the *)
(* same number of rows, a numeric column has at least one row, and an      *)
(* object column with rows has at least one text cell.                     *)
(***************************************************************************)
ColumnNames == {<<"A", " ">>, <<"a", "_">>, <<"_", "a">>}

Column(d, n, v) == [dtype |-> d, name |-> n, values |-> v]

SmallNumeric == [1..SmallRows -> {NaN, Num(0)}]

SmallObject == [1..SmallRows -> {NaT, Txt("x")}] \ {[i \in 1..SmallRows |-> NaT]}

SmallColumns ==
    {Column("num", n, v) : n \in ColumnNames, v \in SmallNumeric}
        \cup {Column("obj", n, v) : n \in ColumnNames, v \in SmallObject}

DistinctNames(t) == \A i, j \in DOMAIN t : i # j => t[i].name # t[j].name

SmallTables ==
    {t \in UNION {[1..k -> SmallColumns] : k \in 1..MaxCols} : DistinctNames(t)}

NumericRuns == (0..MaxRun) \cup ((MaxBins - Near)..(MaxBins + Near))

CategoryRuns == (0..MaxRun) \cup ((MaxCategories - Near)..(MaxCategories + Near))

NumericRamp(lo, square, n) ==
    [k \in 1..n |-> Num(lo + (IF square THEN (k - 1) * (k - 1) ELSE k - 1))]

CategoryRamp(n) == [k \in 1..n |-> Txt("c" \o ToString(k))]

WideNumeric ==
    {NumericRamp(lo, sq, n) \o t :
        lo \in {-3, 0}, sq \in BOOLEAN, n \in NumericRuns,
        t \in SeqsUpTo({NaN, Num(0), Num(7)}, MaxTail)} \ {<<>>}

WideObject ==
    {v \in {CategoryRamp(n) \o t :
              n \in CategoryRuns,
              t \in SeqsUpTo({NaT, Txt("c1"), Txt("c2"), Txt("z")}, MaxTail)} :
        v = <<>> \/ \E i \in DOMAIN v : ~v[i].na}

WideTables ==
    {<<Column("num", <<"A", " ">>, v)>> : v \in WideNumeric}
        \cup {<<Column("obj", <<"A", " ">>, v)>> : v \in WideObject}

Tables == SmallTables \cup WideTables

(***************************************************************************)
(* State after the argument parser has returned the file path.             *)
(***************************************************************************)
Init ==
    /\ \/ /\ path_exists = TRUE
          /\ parseable = TRUE
          /\ table \in Tables
       \/ /\ path_exists \in BOOLEAN
          /\ parseable = FALSE
          /\ table = <<>>
    /\ df = <<>>
    /\ pc = "main"
    /\ col = 0
    /\ report = <<>>
    /\ plot_dir_made = FALSE
    /\ files = {}
    /\ plot_calls = <<>>
    /\ exit_status = -1

Inputs == <<path_exists, parseable, table>>

(***************************************************************************)
(* main                                                                    *)
(***************************************************************************)
\* os.path.exists fails: the message is printed and main returns
MainNotFound ==
    /\ pc = "main"
    /\ ~path_exists
    /\ report' = Append(report, [col |-> 0, tag |-> "NotFound"])
    /\ pc' = "returned"
    /\ UNCHANGED <<Inputs, df, col, plot_dir_made, files, plot_calls, exit_status>>

\* mutant: the plots directory is made before the table is read
MainReadError_dir_first ==
    /\ pc = "main"
    /\ path_exists
    /\ ~parseable
    /\ plot_dir_made' = TRUE
    /\ report' = Append(report, [col |-> 0, tag |-> "Error"])
    /\ pc' = "returned"
    /\ UNCHANGED <<Inputs, df, col, files, plot_calls, exit_status>>

\* pd.read_csv raises: the handler of main prints the error
MainReadError ==
    /\ pc = "main"
    /\ path_exists
    /\ ~parseable
    /\ report' = Append(report, [col |-> 0, tag |-> "Error"])
    /\ pc' = "returned"
    /\ UNCHANGED <<Inputs, df, col, plot_dir_made, files, plot_calls, exit_status>>

\* pd.read_csv, setup_directories and the first print of univariate_analysis
MainLoad ==
    /\ pc = "main"
    /\ path_exists
    /\ parseable
    /\ df' = table
    /\ plot_dir_made' = TRUE
    /\ report' = Append(report, [col |-> 0, tag |-> "Start",
                                 columns |-> Len(table),
                                 rows |-> Len(table[1].values)])
    /\ col' = 1
    /\ pc' = "loop"
    /\ UNCHANGED <<Inputs, files, plot_calls, exit_status>>

(***************************************************************************)
(* save_bar_plot, called as the last statement of a summarizer with the    *)
(* lines `printed` already on the console.  savefig_ok is whether          *)
(* plt.savefig can write the image; when it raises, the exception leaves   *)
(* the summarizer and univariate_analysis and is printed by main.          *)
(***************************************************************************)
save_bar_plot(printed, data, filename, savefig_ok) ==
    /\ plot_calls' = Append(plot_calls, col)
    /\ IF data = <<>>
       THEN /\ report' = report \o printed \o <<[col |-> col, tag |-> "PlotSkipped"]>>
            /\ col' = col + 1
            /\ UNCHANGED <<files, pc>>
       ELSE IF savefig_ok
       THEN /\ files' = {f \in files : f.filename # filename}
                          \cup {[filename |-> filename, col |-> col]}
            /\ report' = report \o printed
                           \o <<[col |-> col, tag |-> "PlotSaved", filename |-> filename]>>
            /\ col' = col + 1
            /\ UNCHANGED pc
       ELSE /\ report' = report \o printed \o <<[col |-> 0, tag |-> "Error"]>>
            /\ pc' = "returned"
            /\ UNCHANGED <<files, col>>

(***************************************************************************)
(* summarize_numeric                                                       *)
(***************************************************************************)
\* mutant: the empty case prints its note and falls through to the chart
NoValidData_no_return ==
    save_bar_plot(<<[col |-> col, tag |-> "NoData"]>>, <<>>,
                  plot_filename(df[col].name), TRUE)

\* the present set is empty: the note is printed and nothing else happens
NoValidData ==
    /\ report' = Append(report, [col |-> col, tag |-> "NoData"])
    /\ col' = col + 1
    /\ UNCHANGED <<files, pc, plot_calls>>

\* mutant: Obs counts the present values only
NumericSection_present(series) ==
    LET non_null == dropna(series)
        bins     == bin_count_of(non_null)
    IN  [col |-> col, tag |-> "Numeric",
         Obs |-> Len(non_null), Missing |-> isna_sum(series),
         Zeros |-> Cardinality({i \in DOMAIN non_null : non_null[i].v = 0}),
         lo |-> MinOf({non_null[i].v : i \in DOMAIN non_null}),
         hi |-> MaxOf({non_null[i].v : i \in DOMAIN non_null}),
         scale |-> CutScale(bins),
         edges |-> CutEdges(non_null, bins),
         freq |-> cut_value_counts(non_null, bins)]

\* the statistics line, the range line and the frequency bins
NumericSection(series) ==
    LET non_null == dropna(series)
        bins     == bin_count_of(non_null)
    IN  [col |-> col, tag |-> "Numeric",
         Obs |-> Len(series), Missing |-> isna_sum(series),
         Zeros |-> Cardinality({i \in DOMAIN non_null : non_null[i].v = 0}),
         lo |-> MinOf({non_null[i].v : i \in DOMAIN non_null}),
         hi |-> MaxOf({non_null[i].v : i \in DOMAIN non_null}),
         scale |-> CutScale(bins),
         edges |-> CutEdges(non_null, bins),
         freq |-> cut_value_counts(non_null, bins)]

SummarizeNumeric ==
    /\ pc = "loop"
    /\ col <= Len(df)
    /\ is_numeric_dtype(df[col])
    /\ LET series == df[col].values
       IN  IF dropna(series) = <<>>
           THEN NoValidData
           ELSE \E savefig_ok \in BOOLEAN :
                  save_bar_plot(<<NumericSection(series)>>,
                                NumericSection(series).freq,
                                plot_filename(df[col].name), savefig_ok)
    /\ UNCHANGED <<Inputs, df, plot_dir_made, exit_status>>

(***************************************************************************)
(* summarize_categorical                                                   *)
(***************************************************************************)
\* mutant: the extremes are reported only with the full listing
has_extremes_untruncated(counts) == counts # <<>> /\ ~is_truncated(counts)

\* not counts.empty
has_extremes(counts) == counts # <<>>

\* the section printed for a text series: the number of categories, the
\* listing (the first rows and the remainder when truncated), the extremes
\* and the note that no plot is made
CategoricalSection(series) ==
    LET counts == value_counts(series)
    IN  [col |-> col, tag |-> "Categorical",
         unique |-> Len(counts),
         counts |-> counts,
         shown |-> IF is_truncated(counts) THEN head(counts, HeadRows) ELSE counts,
         more |-> IF is_truncated(counts) THEN Len(counts) - HeadRows ELSE -1,
         extremes |-> IF has_extremes(counts)
                      THEN <<idxmax(counts), idxmin(counts)>> ELSE <<>>,
         no_plot_note |-> is_truncated(counts)]

SummarizeCategorical ==
    /\ pc = "loop"
    /\ col <= Len(df)
    /\ ~is_numeric_dtype(df[col])
    /\ LET section == CategoricalSection(astype_str(df[col].values))
       IN  IF is_truncated(section.counts)
           THEN /\ report' = Append(report, section)
                /\ col' = col + 1
                /\ UNCHANGED <<files, pc, plot_calls>>
           ELSE \E savefig_ok \in BOOLEAN :
                  save_bar_plot(<<section>>, section.counts,
                                plot_filename(df[col].name), savefig_ok)
    /\ UNCHANGED <<Inputs, df, plot_dir_made, exit_status>>

\* the loop is over: the closing lines are printed and main returns
AnalysisComplete ==
    /\ pc = "loop"
    /\ col > Len(df)
    /\ report' = Append(report, [col |-> 0, tag |-> "Complete"])
    /\ pc' = "returned"
    /\ UNCHANGED <<Inputs, df, col, plot_dir_made, files, plot_calls, exit_status>>

\* main has returned None: the interpreter ends with status 0
Exit ==
    /\ pc = "returned"
    /\ exit_status' = 0
    /\ pc' = "exited"
    /\ UNCHANGED <<Inputs, df, col, report, plot_dir_made, files, plot_calls>>

Next ==
    \/ MainNotFound
    \/ MainReadError
    \/ MainLoad
    \/ SummarizeNumeric
    \/ SummarizeCategorical
    \/ AnalysisComplete
    \/ Exit

Spec == Init /\ [][Next]_vars

TypeOK ==
    /\ pc \in {"main", "loop", "returned", "exited"}
    /\ col \in 0..(MaxCols + 1)
    /\ exit_status \in {-1, 0}

(***************************************************************************)
(* Vocabulary of the properties.                                           *)
(***************************************************************************)
Aborted == \E i \in DOMAIN report : report[i].tag \in {"NotFound", "Error"}

Completed == \E i \in DOMAIN report : report[i].tag = "Complete"

\* column j has its section on the console
Summarized(j) ==
    \E i \in DOMAIN report :
        report[i].col = j /\ report[i].tag \in {"Numeric", "NoData", "Categorical"}

RendererCalled(j) == \E i \in DOMAIN plot_calls : plot_calls[i] = j

PlotSaved(j) ==
    \E i \in DOMAIN report : report[i].col = j /\ report[i].tag = "PlotSaved"

PlotSkipped(j) ==
    \E i \in DOMAIN report : report[i].col = j /\ report[i].tag = "PlotSkipped"

\* the renderer was called for column j and wrote nothing although it had data
ChartWriteFailed(j) == RendererCalled(j) /\ ~PlotSaved(j) /\ ~PlotSkipped(j)

Rows(j) == Len(df[j].values)

PresentRows(j) == {i \in DOMAIN df[j].values : ~df[j].values[i].na}

MissingRows(j) == {i \in DOMAIN df[j].values : df[j].values[i].na}

PresentValues(j) == {df[j].values[i].v : i \in PresentRows(j)}

\* the text categories of an object column, the missing label among them
Categories(j) ==
    PresentValues(j) \cup (IF MissingRows(j) = {} THEN {} ELSE {"nan"})

\* how many rows of column j carry the text category k
Frequency(j, k) ==
    IF k = "nan" THEN Cardinality(MissingRows(j))
    ELSE Cardinality({i \in PresentRows(j) : df[j].values[i].v = k})

AllMissingNumeric(j) ==
    /\ is_numeric_dtype(df[j])
    /\ PresentRows(j) = {}

Descending(rows) ==
    \A a, b \in DOMAIN rows : a < b => rows[a].count >= rows[b].count

(***************************************************************************)
(* C1: for every column c whose chart write fails, the run is not aborted: *)
(* the failure is reported for that column only and every column after c   *)
(* is still summarized before the run ends.                                *)
(***************************************************************************)
ChartFailureKeepsRunning ==
    pc = "exited" =>
        \A c \in DOMAIN df :
            ChartWriteFailed(c) =>
                /\ Completed
                /\ \A j \in (c + 1)..Len(df) : Summarized(j)

(***************************************************************************)
(* C3: when the input path does not exist or the file cannot be parsed,    *)
(* the run prints one error message and nothing else: no column section,   *)
(* no plots directory, no renderer call, no chart file.                    *)
(***************************************************************************)
InputErrorNoOutput ==
    (~path_exists \/ ~parseable) =>
        /\ ~plot_dir_made
        /\ files = {}
        /\ plot_calls = <<>>
        /\ df = <<>>
        /\ pc # "loop"
        /\ pc = "main" => report = <<>>
        /\ pc # "main" =>
              report = <<[col |-> 0,
                          tag |-> IF path_exists THEN "Error" ELSE "NotFound"]>>

UnparseableAborted ==
    /\ pc = "exited"
    /\ path_exists
    /\ ~parseable
    /\ report = <<[col |-> 0, tag |-> "Error"]>>

(***************************************************************************)
(* C4: a run whose input does not exist or cannot be parsed ends with a    *)
(* non-zero exit status; status zero is reached only by runs that loaded   *)
(* the table and completed the analysis.                                   *)
(***************************************************************************)
FailureExitsNonZero ==
    pc = "exited" =>
        /\ (~path_exists \/ ~parseable) => exit_status # 0
        /\ exit_status = 0 => (df # <<>> /\ Completed)

(***************************************************************************)
(* C2: a categorical section lists every (category, count) row iff the     *)
(* column has at most 50 distinct categories; with d > 50 categories it    *)
(* lists exactly the first 10 rows of the descending-frequency table and   *)
(* the remainder d - 10, and the renderer is never called for the column.  *)
(***************************************************************************)
ListsEveryCategory(e) ==
    /\ Len(e.shown) = Cardinality(Categories(e.col))
    /\ {e.shown[i].key : i \in DOMAIN e.shown} = Categories(e.col)
    /\ \A i \in DOMAIN e.shown : e.shown[i].count = Frequency(e.col, e.shown[i].key)

ListsTopTen(e) ==
    /\ Len(e.shown) = HeadRows
    /\ Descending(e.shown)
    /\ \A i, j \in DOMAIN e.shown : i # j => e.shown[i].key # e.shown[j].key
    /\ \A i \in DOMAIN e.shown :
          /\ e.shown[i].key \in Categories(e.col)
          /\ e.shown[i].count = Frequency(e.col, e.shown[i].key)
    /\ \A k \in Categories(e.col) \ {e.shown[i].key : i \in DOMAIN e.shown} :
          Frequency(e.col, k) <= e.shown[HeadRows].count

TruncationRule ==
    \A r \in DOMAIN report :
        report[r].tag = "Categorical" =>
            LET e == report[r]
                d == Cardinality(Categories(e.col))
            IN  /\ ListsEveryCategory(e) <=> d <= MaxCategories
                /\ d <= MaxCategories => e.more = -1
                /\ d > MaxCategories =>
                      /\ ListsTopTen(e)
                      /\ e.more = d - HeadRows
                      /\ ~RendererCalled(e.col)
                      /\ \A f \in files : f.col # e.col

TruncatedListing ==
    /\ pc = "exited"
    /\ \E r \in DOMAIN report :
          /\ report[r].tag = "Categorical"
          /\ report[r].unique = MaxCategories + 1
          /\ report[r].more = MaxCategories + 1 - HeadRows
          /\ report[r].shown[1].count > 1

(***************************************************************************)
(* C5: for a numeric column with a present value, the printed Obs plus the *)
(* printed Missing equals the number of rows, and the printed Zeros is at  *)
(* most the number of present values.                                      *)
(***************************************************************************)
ObsPlusMissingIsRows ==
    \A r \in DOMAIN report :
        report[r].tag = "Numeric" =>
            LET e == report[r]
            IN  /\ e.Obs + e.Missing = Rows(e.col)
                /\ e.Zeros <= Cardinality(PresentRows(e.col))

\* C5 as the program has it: Obs is the number of rows, the missing ones
\* included, so Obs less Missing is the number of present values; Zeros is
\* the number of present values equal to 0, at most the present values.
ObsIsRows ==
    \A r \in DOMAIN report :
        report[r].tag = "Numeric" =>
            LET e == report[r]
            IN  /\ e.Obs = Rows(e.col)
                /\ e.Missing = Cardinality(MissingRows(e.col))
                /\ e.Obs - e.Missing = Cardinality(PresentRows(e.col))
                /\ e.Zeros = Cardinality({i \in PresentRows(e.col) :
                                            df[e.col].values[i].v = 0})
                /\ e.Zeros <= Cardinality(PresentRows(e.col))

NumericWithMissing ==
    \E r \in DOMAIN report :
        /\ report[r].tag = "Numeric"
        /\ report[r].Missing > 0
        /\ report[r].Zeros > 0
        /\ report[r].Obs > report[r].Missing + report[r].Zeros

(***************************************************************************)
(* C6: for a numeric column whose values are all missing the summarizer    *)
(* prints the no-data note and nothing else, does not call the renderer    *)
(* and writes no file, and the loop goes on with the next column.          *)
(***************************************************************************)
EmptyNumericIsSkipped ==
    [][(pc = "loop" /\ col <= Len(df) /\ AllMissingNumeric(col)) =>
          /\ report' = Append(report, [col |-> col, tag |-> "NoData"])
          /\ plot_calls' = plot_calls
          /\ files' = files
          /\ pc' = "loop"
          /\ col' = col + 1]_vars

EmptyNumericThenNext ==
    \E j \in DOMAIN df :
        /\ AllMissingNumeric(j)
        /\ \E r \in DOMAIN report : report[r] = [col |-> j, tag |-> "NoData"]
        /\ ~RendererCalled(j)
        /\ j < Len(df)
        /\ Summarized(j + 1)

(***************************************************************************)
(* C7: after a completed run the output directory holds one image per      *)
(* column that produced a chart, each under the name made from the column  *)
(* name (lower case, spaces to underscores, suffix _distribution), and the *)
(* number of files equals the number of columns that produced a chart.     *)
(***************************************************************************)
OneImagePerChartedColumn ==
    (pc = "exited" /\ Completed) =>
        /\ \A j \in DOMAIN df :
              PlotSaved(j) =>
                  [filename |-> plot_filename(df[j].name), col |-> j] \in files
        /\ Cardinality(files) = Cardinality({j \in DOMAIN df : PlotSaved(j)})

(***************************************************************************)
(* C8: on the categorical path a missing cell is its own text category:    *)
(* the frequency counts sum to the number of rows, and the reported number *)
(* of categories is the number of distinct texts, the missing label        *)
(* included.                                                               *)
(***************************************************************************)
CategoricalCountsCoverRows ==
    \A r \in DOMAIN report :
        report[r].tag = "Categorical" =>
            LET e == report[r]
            IN  /\ SumSeq([i \in DOMAIN e.counts |-> e.counts[i].count]) = Rows(e.col)
                /\ e.unique = Cardinality(PresentValues(e.col))
                                + (IF MissingRows(e.col) = {} THEN 0 ELSE 1)
                /\ {e.counts[i].key : i \in DOMAIN e.counts} = Categories(e.col)
                /\ \A i \in DOMAIN e.counts :
                      e.counts[i].count = Frequency(e.col, e.counts[i].key)

MissingIsACategory ==
    \E r \in DOMAIN report :
        /\ report[r].tag = "Categorical"
        /\ MissingRows(report[r].col) # {}
        /\ \E i \in DOMAIN report[r].counts :
              /\ report[r].counts[i].key = "nan"
              /\ report[r].counts[i].count = Cardinality(MissingRows(report[r].col))

(***************************************************************************)
(* C9: for a numeric column with a present value the histogram has         *)
(* min(distinct present values, 20) bins in ascending order, every present *)
(* value (the minimum and the maximum too) falls in exactly one bin, the   *)
(* bin counts sum to the number of present values, and a column of         *)
(* identical present values gives 1 bin holding all of them.               *)
(***************************************************************************)
\* the present cell i of column j lies in bin b: above the bin's lower
\* edge and at most its upper edge
InBin(e, i, b) ==
    /\ e.edges[b] < e.scale * df[e.col].values[i].v
    /\ e.scale * df[e.col].values[i].v <= e.edges[b + 1]

HistogramCoversPresent ==
    \A r \in DOMAIN report :
        report[r].tag = "Numeric" =>
            LET e == report[r]
                distinct == Cardinality(PresentValues(e.col))
                present == Cardinality(PresentRows(e.col))
                bins == Len(e.freq)
            IN  /\ bins = IF distinct < MaxBins THEN distinct ELSE MaxBins
                /\ Len(e.edges) = bins + 1
                /\ \A b \in 1..bins : e.edges[b] < e.edges[b + 1]
                /\ \A i \in PresentRows(e.col) :
                      Cardinality({b \in 1..bins : InBin(e, i, b)}) = 1
                /\ \A b \in 1..bins :
                      e.freq[b] = Cardinality({i \in PresentRows(e.col) : InBin(e, i, b)})
                /\ SumSeq(e.freq) = present
                /\ distinct = 1 => e.freq = <<present>>

CappedHistogram ==
    \E r \in DOMAIN report :
        /\ report[r].tag = "Numeric"
        /\ Cardinality(PresentValues(report[r].col)) > MaxBins
        /\ Len(report[r].freq) = MaxBins
        /\ report[r].freq[1] > 1
        /\ report[r].freq[MaxBins] >= 1
        /\ \E b \in 1..MaxBins : report[r].freq[b] = 0

(***************************************************************************)
(* C10: the most-frequent / least-frequent line is printed exactly when    *)
(* the listing is not truncated and the column is not empty (1 <= distinct *)
(* categories <= 50).  When printed, the most frequent count is >= every   *)
(* count, the least frequent count is <= every count, and a tie goes to    *)
(* the first such row of the descending-frequency table.                   *)
(***************************************************************************)
\* row x is the first row of the table whose count is extreme under Better
FirstExtreme(e, x, Better(_, _)) ==
    \E i \in DOMAIN e.counts :
        /\ e.counts[i] = x
        /\ \A k \in DOMAIN e.counts : ~Better(e.counts[k].count, x.count)
        /\ \A k \in 1..(i - 1) : e.counts[k].count # x.count

ExtremesAreRight(e) ==
    /\ Descending(e.counts)
    /\ \A i \in DOMAIN e.counts :
          e.counts[i].count = Frequency(e.col, e.counts[i].key)
    /\ Len(e.extremes) = 2
    /\ FirstExtreme(e, e.extremes[1], LAMBDA a, b : a > b)
    /\ FirstExtreme(e, e.extremes[2], LAMBDA a, b : a < b)

ExtremesOnlyUntruncated ==
    \A r \in DOMAIN report :
        report[r].tag = "Categorical" =>
            LET e == report[r]
                d == Cardinality(Categories(e.col))
            IN  /\ e.extremes # <<>> <=> (1 <= d /\ d <= MaxCategories)
                /\ e.extremes # <<>> => ExtremesAreRight(e)

\* C10 as the program has it: the line is printed exactly when the column
\* is not empty (distinct categories >= 1), after a truncated listing too;
\* the counts and the tie rule are as stated.
ExtremesWheneverNonEmpty ==
    \A r \in DOMAIN report :
        report[r].tag = "Categorical" =>
            LET e == report[r]
                d == Cardinality(Categories(e.col))
            IN  /\ e.extremes # <<>> <=> 1 <= d
                /\ e.extremes # <<>> => ExtremesAreRight(e)

ExtremesAfterTruncation ==
    \E r \in DOMAIN report :
        /\ report[r].tag = "Categorical"
        /\ report[r].unique > MaxCategories
        /\ report[r].more > 0
        /\ Len(report[r].extremes) = 2
        /\ report[r].extremes[1].count > report[r].extremes[2].count
        /\ report[r].extremes[2] # report[r].counts[Len(report[r].counts)]
====
